---- MODULE Spec2Model ----
(***************************************************************************)
(* Combat resolution core of Augmented Ascension III: attack buffer,       *)
(* cooldown table, attack execution, deferred movement batches and         *)
(* collision/hit resolution, as scheduled by main.rs (movement_input_system*)
(* in stage First, the gameplay systems in stage Update).                  *)
(*                                                                         *)
(* Time (f64 seconds in the code) is counted in whole units; f32 health,   *)
(* damage and velocity components are integers.  A Vec2 is modelled by one *)
(* component: every operation on it in the modelled code is component-wise.*)
(***************************************************************************)
EXTENDS Integers, Sequences, FiniteSets, TLC

(* ------------------------------ bounds -------------------------------- *)
\* Number of selected characters (fighters) in the match.
NumFighters == 3
\* Fighters whose keys produce press/release edges; the others stay idle.
NumActive == 1
\* Last instant of Time::seconds_since_startup that is explored.
MaxTime == 5
\* Key edges (just pressed / just released) handled in one frame.
MaxKeyEvents == 2
\* Projectile entities spawned in one run.
MaxEntities == 2
\* Deferred batches registered in one run (cap on previous_used_id).
MaxBatches == 2
\* Longest frame interval, in time units.
MaxDelta == 2
\* Collision events delivered to collision_process in one frame.
MaxEvents == 1
\* Largest maximum_jumps, required_jumps and jumps_removed of a character file.
MaxJumps == 1

(* -------------------------- program constants ------------------------- *)
\* GameplaySettings::default().attack_buffer_reset_time
attack_buffer_reset_time == 3

Fighters == 1..NumFighters
ActiveFighters == 1..NumActive

None == "none"

(* ------------------------- small map helpers -------------------------- *)
\* HashMap::insert
MapPut(m, k, v) == [x \in DOMAIN m \cup {k} |-> IF x = k THEN v ELSE m[x]]
\* HashMap::remove / retain, for a set of keys
MapDrop(m, ks) == [x \in DOMAIN m \ ks |-> m[x]]
EmptyMap == [x \in {} |-> None]
\* Option<T>: None is the empty tuple, Some(x) the one-element tuple
NoneOpt == <<>>
Some(x) == <<x>>

(* ---------------------------- input kinds ----------------------------- *)
InputPurpose == {"Up", "Down", "Left", "Right", "Atk1", "Atk2", "Reset"}
KeyEdges == {"JustPressed", "JustReleased"}

(* ------------------------- direction resolver ------------------------- *)
DirBits == {"UP", "LEFT", "RIGHT", "DOWN"}

\* a resolver that cancels up against down only
get_full_dir_flags_vertical(bits) ==
    LET a == IF {"UP", "DOWN"} \subseteq bits THEN bits \ {"UP", "DOWN"} ELSE bits
    IN  IF a \cap DirBits # {} THEN a \ {"NONE"} ELSE a

\* DirectionFacingFlags::get_full_dir_flags
get_full_dir_flags(bits) ==
    LET a == IF {"UP", "DOWN"} \subseteq bits THEN bits \ {"UP", "DOWN"} ELSE bits
        b == IF {"LEFT", "RIGHT"} \subseteq a THEN a \ {"LEFT", "RIGHT"} ELSE a
    IN  IF b \cap DirBits # {} THEN b \ {"NONE"} ELSE b

\* The variant chosen by the match on FullDirectionFacingFlags that both
\* get_instance_id and the per-facing id selection use (default arm: None).
FacingName(full) ==
    CASE full = {"UP", "LEFT"} -> "UpLeft"
      [] full = {"UP", "RIGHT"} -> "UpRight"
      [] full = {"DOWN", "RIGHT"} -> "DownRight"
      [] full = {"DOWN", "LEFT"} -> "DownLeft"
      [] full = {"LEFT"} -> "Left"
      [] full = {"RIGHT"} -> "Right"
      [] full = {"DOWN"} -> "Down"
      [] full = {"UP"} -> "Up"
      [] OTHER -> "None"

\* FullDirectionFacingFlags::get_instance_id
get_instance_id(full, id) == <<FacingName(full), id>>

(* ------------------- the character definition in play ------------------ *)
(* One character file, selected by every fighter.  It binds three of the   *)
(* four combo keys and leaves 2-2 unbound; its spawn action has no         *)
(* projectile template for facing Down and two for facing Right, the       *)
(* second drawn with a sync_offset that has a z component; for facing     *)
(* DownLeft its template names a physics object the file does not define;  *)
(* its movement templates carry the instance tag of the spawn action.      *)
PhysFields == {"linvel", "angvel", "force", "torque", "linear_damping", "angular_damping"}
NoFields == [k \in PhysFields |-> NoneOpt]
ZeroBody == [k \in PhysFields |-> 0]

FacingNames == {"None", "Up", "Down", "Left", "Right",
                "UpLeft", "UpRight", "DownLeft", "DownRight"}

\* Character::movement_action, keyed by create_movement_action_map
MovementActionMap ==
    [id \in {"impulse", "launch"} |->
        IF id = "impulse"
        THEN << [id |-> "impulse", instance_affected_id |-> "shot",
                 set |-> NoFields,
                 add |-> [NoFields EXCEPT !["linvel"] = Some(2)]] >>
        ELSE << [id |-> "launch", instance_affected_id |-> "shot",
                 set |-> [NoFields EXCEPT !["linvel"] = Some(3)],
                 add |-> [NoFields EXCEPT !["linvel"] = Some(1),
                                          !["angvel"] = Some(1)]] >>]

\* Character::projectile, keyed by create_projectile_map
ProjectileMap ==
    [id \in {"bolt", "pair", "stray"} |->
        CASE id = "bolt" ->
               << [id |-> "bolt", damage |-> 1, pierce |-> 1, lifetime |-> 1,
                   physobj_id |-> "bolt_body", spawn_z_axis |-> 0, sync_offset |-> 0] >>
          [] id = "pair" ->
               << [id |-> "pair", damage |-> 1, pierce |-> 1, lifetime |-> 1,
                   physobj_id |-> "bolt_body", spawn_z_axis |-> 0, sync_offset |-> 0],
                  [id |-> "pair", damage |-> 1, pierce |-> 1, lifetime |-> 1,
                   physobj_id |-> "bolt_body", spawn_z_axis |-> 0, sync_offset |-> 1] >>
          [] OTHER ->
               << [id |-> "stray", damage |-> 1, pierce |-> 1, lifetime |-> 1,
                   physobj_id |-> "lost_body", spawn_z_axis |-> 0, sync_offset |-> 0] >>]

\* ids of Character::physics_object (create_physics_map)
PhysMap == {"core_body", "bolt_body"}

\* Character::spawn_projectile_action and Character::movement_attack_action,
\* keyed by create_action_map: the spawn actions of an id first, then its
\* movement actions.
AttackMap ==
    [id \in {"shoot", "push"} |->
        IF id = "shoot"
        THEN << [kind |-> "SpawnProjectile", id |-> "shoot", instance_id |-> "shot",
                 ids |-> [d \in FacingNames |->
                             CASE d = "Down" -> "ghost" [] d = "Right" -> "pair"
                               [] d = "DownLeft" -> "stray" [] OTHER -> "bolt"]] >>
        ELSE << [kind |-> "MoveAttackAction", id |-> "push", instance_id |-> "shot",
                 ids |-> [d \in FacingNames |-> IF d = "Up" THEN "launch" ELSE "impulse"]] >>]

AttackTypes == {"OneOne", "OneTwo", "TwoOne", "TwoTwo"}

\* Character::attack (AvailableAttacks), one Option<Attack> per combo key
AvailableAttacks ==
    [a \in AttackTypes |->
        CASE a = "OneOne" -> Some([actions |-> <<"shoot", "push">>, cooldown |-> 2])
          [] a = "OneTwo" -> Some([actions |-> <<"push", "shoot">>, cooldown |-> 1])
          [] a = "TwoOne" -> Some([actions |-> <<"push">>, cooldown |-> 0])
          [] OTHER -> NoneOpt]

(* ------------------------------- state -------------------------------- *)
VARIABLES
    now,               \* Time::seconds_since_startup of the current frame
    stage,             \* "First" or "Update": the stage the frame is in
    ran,               \* Update systems that have run in this frame
    processed,         \* <<fighter, purpose>> key edges handled in this frame
    touched,           \* fighters with some key iteration done in this frame
    players,           \* fighters whose core body entity exists
    attack_buffer,     \* per fighter: AttackBuffer {buffer, final_timestamp}
    player_descriptor, \* per fighter: AAPlayerDescriptor
    player_health,     \* per fighter: PlayerHealth
    attack_directory,  \* the AttackInstanceDirectory resource
    projectiles,       \* projectile entity -> components
    next_entity,       \* next projectile entity handle
    commands,          \* despawn commands queued until the stage ends
    pressed_up,        \* AvailableMovementActions::pressed_up of the character
    overflow_checks,   \* the build panics on integer overflow (debug profile)
    events_read,       \* collision events read by the running collision_process
    last_apply,        \* the call of CharEntities::apply_attack made by this step
    panicked,          \* the process has aborted on a panic
    transforms,        \* per fighter: Transform of the core physics body
    dependents,        \* synced entity -> its Transform
    visuals            \* the visual entities the projectile spawns created

vars == <<now, stage, ran, processed, touched, players, attack_buffer,
          player_descriptor, player_health, attack_directory, projectiles,
          next_entity, commands, pressed_up, overflow_checks, events_read,
          last_apply, panicked, transforms, dependents, visuals>>

NoCall == [player |-> 0, key |-> <<>>, outcome |-> "none"]
EmptyBuffer == [buffer |-> <<>>, final_timestamp |-> 0]

(* ---------------------------- attack buffer ---------------------------- *)
\* add_to_buffer putting the pressed key in front of the buffer
add_to_buffer_front(ab, input_type, attack_key, t) ==
    IF input_type = "JustPressed" /\ attack_key \in {"Atk1", "Atk2"}
    THEN [buffer |-> <<IF attack_key = "Atk1" THEN "One" ELSE "Two">> \o ab.buffer,
          final_timestamp |-> t]
    ELSE IF input_type = "JustPressed" /\ attack_key = "Reset" THEN EmptyBuffer
    ELSE ab

\* AttackBuffer::add_to_buffer
add_to_buffer(ab, input_type, attack_key, t) ==
    IF input_type = "JustPressed"
    THEN CASE attack_key = "Atk1" ->
                [buffer |-> Append(ab.buffer, "One"), final_timestamp |-> t]
           [] attack_key = "Atk2" ->
                [buffer |-> Append(ab.buffer, "Two"), final_timestamp |-> t]
           [] attack_key = "Reset" -> EmptyBuffer
           [] OTHER -> ab
    ELSE ab

\* AttackBuffer::execute_buffer, the staleness test
clear_if_stale(ab, t) ==
    IF ab.final_timestamp + attack_buffer_reset_time < t THEN EmptyBuffer ELSE ab

\* a resolve that waits for a third press
combo_of_three(ab) ==
    IF Len(ab.buffer) >= 3 THEN Some(<<ab.buffer[1], ab.buffer[2]>>) ELSE NoneOpt

\* AttackBuffer::execute_buffer, the combo handed to apply_attack (or none)
combo_of(ab) ==
    IF Len(ab.buffer) >= 2 THEN Some(<<ab.buffer[1], ab.buffer[2]>>) ELSE NoneOpt

\* the match on the buffer in CharEntities::apply_attack
attack_type_of(key) ==
    CASE key = <<"One", "One">> -> "OneOne"
      [] key = <<"One", "Two">> -> "OneTwo"
      [] key = <<"Two", "One">> -> "TwoOne"
      [] OTHER -> "TwoTwo"

(* --------------------------- movement values --------------------------- *)
\* MovementAction::set_values: every present set_* field overwrites
set_values(action, body) ==
    [k \in PhysFields |-> IF action.set[k] = NoneOpt THEN body[k] ELSE action.set[k][1]]

\* MovementAction::add_values: every present add_* field is added
add_values(action, body) ==
    [k \in PhysFields |-> IF action.add[k] = NoneOpt THEN body[k] ELSE body[k] + action.add[k][1]]

RECURSIVE Flatten(_)
Flatten(ss) == IF ss = <<>> THEN <<>> ELSE Head(ss) \o Flatten(Tail(ss))

(* ------------------------- spawning projectiles ------------------------ *)
(* A world w is the part of the program state an attack can change:        *)
(* w.dir the AttackInstanceDirectory, w.proj the projectile entities,      *)
(* w.next the next entity handle.  Entities spawned through Commands exist *)
(* from the end of the stage; no system of the same stage looks them up,   *)
(* so they are entered into w.proj at once.                                *)

\* Projectile::spawn_projectile with PhysMap::spawn_physics_object_with_sync:
\* the components of the spawned physics entity
ProjectileIdentifier(projectile, f, t) ==
    [parent |-> f, created_timestamp |-> t, lifetime |-> projectile.lifetime,
     damage |-> projectile.damage, pierce |-> projectile.pierce,
     body |-> ZeroBody, applied |-> 0]

\* ColliderSyncEntity::despawn_self of the despawned projectile bodies: the
\* visual entities listed in their synced_objects go with them
despawn_synced(vis, bodies) ==
    LET Stays(v) == v.body = NoneOpt \/ v.body[1] \notin bodies
    IN  SelectSeq(vis, Stays)

\* Projectile::spawn_projectile, the visual entity it spawns before it asks
\* for the physics body: drawn at spawn_z_axis, carrying the template's
\* sync_offset (its z component) as SyncTransformOffset, and listed in the
\* synced_objects of the body if one is spawned
projectile_spawned(projectile, body) ==
    [body |-> body, z |-> projectile.spawn_z_axis, sync_offset |-> projectile.sync_offset]

\* the loop over the facing's projectile templates in
\* SpawnProjectileAction::execute_action; r = [instance, proj, next]
RECURSIVE spawn_projectile(_, _, _, _, _)
spawn_projectile(templates, key, f, r, t) ==
    IF templates = <<>> THEN r
    ELSE LET projectile == Head(templates)
             r1 == IF projectile.physobj_id \in PhysMap
                   THEN [instance |->
                            MapPut(r.instance, key,
                                   IF key \in DOMAIN r.instance
                                   THEN Append(r.instance[key], r.next)
                                   ELSE <<r.next>>),
                         proj |-> MapPut(r.proj, r.next, ProjectileIdentifier(projectile, f, t)),
                         next |-> r.next + 1,
                         vis |-> Append(r.vis, projectile_spawned(projectile, Some(r.next)))]
                   ELSE [r EXCEPT !.vis = Append(@, projectile_spawned(projectile, NoneOpt))]
         IN  spawn_projectile(Tail(templates), key, f, r1, t)

\* SpawnProjectileAction::execute_action
SpawnProjectileAction_execute_action(action, f, direction_facing, r, t) ==
    LET dir_facing == get_full_dir_flags(direction_facing)
        projectile_id == action.ids[FacingName(dir_facing)]
    IN  IF projectile_id \notin DOMAIN ProjectileMap THEN r
        ELSE spawn_projectile(ProjectileMap[projectile_id],
                              get_instance_id(dir_facing, action.instance_id), f, r, t)

(* --------------------------- attack execution -------------------------- *)
\* the walk over the attack's actions in Attack::execute_attack;
\* r = [instance, proj, next, unexecuted]
RECURSIVE walk_actions(_, _, _, _, _)
walk_actions(actions, f, direction_facing, r, t) ==
    IF actions = <<>> THEN r
    ELSE LET action == Head(actions)
             r1 == IF action.kind = "SpawnProjectile"
                   THEN LET s == SpawnProjectileAction_execute_action(
                                     action, f, direction_facing,
                                     [instance |-> r.instance, proj |-> r.proj, next |-> r.next,
                                         vis |-> r.vis], t)
                        IN  [instance |-> s.instance, proj |-> s.proj, next |-> s.next,
                                vis |-> s.vis,
                             unexecuted |-> r.unexecuted]
                   ELSE [r EXCEPT !.unexecuted = Append(@, action)]
         IN  walk_actions(Tail(actions), f, direction_facing, r1, t)

\* an execute_attack that hands the impulse template to the projectiles it
\* spawns at once, inside the attack execution
Attack_execute_attack_inline(attack, f, direction_facing, w, t) ==
    LET actions == Flatten([i \in 1..Len(attack.actions) |->
                        IF attack.actions[i] \in DOMAIN AttackMap
                        THEN AttackMap[attack.actions[i]] ELSE <<>>])
        r == walk_actions(actions, f, direction_facing,
                          [instance |-> EmptyMap, proj |-> w.proj, next |-> w.next,
                           vis |-> w.vis, unexecuted |-> <<>>], t)
    IN  [dir |-> w.dir,
         proj |-> [e \in DOMAIN r.proj |->
                      IF e \in DOMAIN w.proj THEN r.proj[e]
                      ELSE [r.proj[e] EXCEPT
                               !.body = add_values(MovementActionMap["impulse"][1], @),
                               !.applied = @ + 1]],
         next |-> r.next, vis |-> r.vis]

\* Attack::execute_attack
Attack_execute_attack(attack, f, direction_facing, w, t) ==
    LET actions == Flatten([i \in 1..Len(attack.actions) |->
                        IF attack.actions[i] \in DOMAIN AttackMap
                        THEN AttackMap[attack.actions[i]] ELSE <<>>])
        r == walk_actions(actions, f, direction_facing,
                          [instance |-> EmptyMap, proj |-> w.proj, next |-> w.next,
                           vis |-> w.vis, unexecuted |-> <<>>], t)
        current_id == w.dir.previous_used_id
    IN  IF Len(r.unexecuted) > 0
        THEN [dir |-> [w.dir EXCEPT
                          !.previous_used_id = @ + 1,
                          !.attack_instances = MapPut(@, current_id, r.instance),
                          !.unexecuted_actions =
                              Append(@, [actions |-> r.unexecuted, player_id |-> f,
                                         instance_id |-> current_id])],
              proj |-> r.proj, next |-> r.next, vis |-> r.vis]
        ELSE [dir |-> w.dir, proj |-> r.proj, next |-> r.next, vis |-> r.vis]

(* ---------------------------- cooldown gate ---------------------------- *)
\* CharEntities::apply_attack: what the call does ("suppressed" by a cooldown
\* entry, "unbound" slot, or "executed")
apply_outcome(f, key, dir) ==
    IF attack_type_of(key) \in DOMAIN dir.cooldown[f] THEN "suppressed"
    ELSE IF AvailableAttacks[attack_type_of(key)] = NoneOpt THEN "unbound"
    ELSE "executed"

\* an apply_attack that executes a bound attack whatever the cooldown table holds
apply_attack_ungated(f, key, direction_facing, w, t) ==
    LET attack_type == attack_type_of(key)
        attack == AvailableAttacks[attack_type]
    IN  IF attack = NoneOpt THEN w
        ELSE Attack_execute_attack(
                 attack[1], f, direction_facing,
                 [w EXCEPT !.dir.cooldown[f] =
                     MapPut(@, attack_type,
                            [cooldown_start |-> t, cooldown_duration |-> attack[1].cooldown])],
                 t)

\* an apply_attack that starts the cooldown of an unbound slot
apply_attack_unbound_cooldown(f, key, direction_facing, w, t) ==
    LET attack_type == attack_type_of(key)
        attack == AvailableAttacks[attack_type]
    IN  IF attack_type \in DOMAIN w.dir.cooldown[f] THEN w
        ELSE IF attack = NoneOpt
        THEN [w EXCEPT !.dir.cooldown[f] =
                 MapPut(@, attack_type, [cooldown_start |-> t, cooldown_duration |-> 1])]
        ELSE Attack_execute_attack(
                 attack[1], f, direction_facing,
                 [w EXCEPT !.dir.cooldown[f] =
                     MapPut(@, attack_type,
                            [cooldown_start |-> t, cooldown_duration |-> attack[1].cooldown])],
                 t)

\* CharEntities::apply_attack
apply_attack(f, key, direction_facing, w, t) ==
    LET attack_type == attack_type_of(key)
        attack == AvailableAttacks[attack_type]
    IN  IF attack_type \in DOMAIN w.dir.cooldown[f] THEN w
        ELSE IF attack = NoneOpt THEN w
        ELSE Attack_execute_attack(
                 attack[1], f, direction_facing,
                 [w EXCEPT !.dir.cooldown[f] =
                     MapPut(@, attack_type,
                            [cooldown_start |-> t, cooldown_duration |-> attack[1].cooldown])],
                 t)

\* check_cooldowns: an entry is retained while duration - (now - start) > 0
check_cooldowns(cooldown, t) ==
    [f \in Fighters |->
        [a \in {x \in DOMAIN cooldown[f] :
                  ~(cooldown[f][x].cooldown_duration - (t - cooldown[f][x].cooldown_start) <= 0)}
           |-> cooldown[f][a]]]

\* an execute_buffer that consumes the presses only of a combo that executes
execute_buffer_keep_refused(ab, f, direction_facing, w, t) ==
    LET fresh == clear_if_stale(ab, t)
        combo == combo_of(fresh)
    IN  IF combo = NoneOpt
        THEN [ab |-> fresh, w |-> w, call |-> NoCall]
        ELSE [ab |-> IF apply_outcome(f, combo[1], w.dir) = "executed"
                     THEN EmptyBuffer ELSE fresh,
              w |-> apply_attack(f, combo[1], direction_facing, w, t),
              call |-> [player |-> f, key |-> combo[1],
                        outcome |-> apply_outcome(f, combo[1], w.dir)]]

\* AttackBuffer::execute_buffer: the buffer after the call and the world it leaves
execute_buffer(ab, f, direction_facing, w, t) ==
    LET fresh == clear_if_stale(ab, t)
        combo == combo_of(fresh)
    IN  IF combo = NoneOpt
        THEN [ab |-> fresh, w |-> w, call |-> NoCall]
        ELSE [ab |-> EmptyBuffer,
              w |-> apply_attack(f, combo[1], direction_facing, w, t),
              call |-> [player |-> f, key |-> combo[1],
                        outcome |-> apply_outcome(f, combo[1], w.dir)]]

(* ------------------------- the deferred phase -------------------------- *)
\* the loop over the slot's entities in MovementAttackAction::execute_action;
\* items are <<movement action, projectile entity>> pairs in loop order.  A
\* missing entity returns from the whole call.  The values are added first
\* and set second.
RECURSIVE move_projectiles(_, _)
move_projectiles(items, proj) ==
    IF items = <<>> THEN proj
    ELSE LET action == Head(items)[1]
             e == Head(items)[2]
         IN  IF e \notin DOMAIN proj THEN proj
             ELSE move_projectiles(Tail(items),
                      [proj EXCEPT ![e].body = set_values(action, add_values(action, @)),
                                   ![e].applied = @ + 1])

\* a MoveAction that touches no projectile
MovementAttackAction_no_effect(action, direction_facing, instance, proj) == proj

\* MovementAttackAction::execute_action
MovementAttackAction_execute_action(action, direction_facing, instance, proj) ==
    LET dir_facing == get_full_dir_flags(direction_facing)
        action_id == action.ids[FacingName(dir_facing)]
        movement_action == MovementActionMap[action_id]
        slot(m) == get_instance_id(dir_facing, m.instance_affected_id)
        items == Flatten([i \in 1..Len(movement_action) |->
                     IF slot(movement_action[i]) \in DOMAIN instance
                     THEN [j \in 1..Len(instance[slot(movement_action[i])]) |->
                              <<movement_action[i], instance[slot(movement_action[i])][j]>>]
                     ELSE <<>>])
    IN  IF action_id \notin DOMAIN MovementActionMap THEN proj
        ELSE move_projectiles(items, proj)

\* the loop over a batch's actions in execute_unused_actions
RECURSIVE run_actions(_, _, _, _)
run_actions(actions, direction_facing, instance, proj) ==
    IF actions = <<>> THEN proj
    ELSE run_actions(Tail(actions), direction_facing, instance,
             IF Head(actions).kind = "MoveAttackAction"
             THEN MovementAttackAction_execute_action(Head(actions), direction_facing,
                                                      instance, proj)
             ELSE proj)

\* the loop over the batches in execute_unused_actions; r = [proj, remove].
\* A batch whose instance map, CharEntities or core body is missing is
\* skipped by `continue`, before its id is pushed on the remove list.
RECURSIVE run_batches(_, _, _, _, _)
run_batches(batches, attack_instances, alive, descriptor, r) ==
    IF batches = <<>> THEN r
    ELSE LET b == Head(batches)
             r1 == IF \/ b.instance_id \notin DOMAIN attack_instances
                      \/ b.player_id \notin Fighters
                      \/ b.player_id \notin alive
                   THEN r
                   ELSE [proj |-> run_actions(b.actions,
                                      descriptor[b.player_id].direction_facing,
                                      attack_instances[b.instance_id], r.proj),
                         remove |-> r.remove \cup {b.instance_id}]
         IN  run_batches(Tail(batches), attack_instances, alive, descriptor, r1)

\* a retain that drops nothing
keep_all(batches, remove) == batches

\* the retain over unexecuted_actions in execute_unused_actions
keep_without(batches, remove) ==
    LET keep(b) == b.instance_id \notin remove IN SelectSeq(batches, keep)

\* a deferred phase that drops the executed batches and keeps their maps
execute_unused_actions_keep_maps(dir, proj, alive, descriptor) ==
    LET r == run_batches(dir.unexecuted_actions, dir.attack_instances, alive, descriptor,
                         [proj |-> proj, remove |-> {}])
    IN  [dir |-> [dir EXCEPT !.unexecuted_actions = keep_without(@, r.remove)],
         proj |-> r.proj]

\* execute_unused_actions: the world after the deferred phase
execute_unused_actions(dir, proj, alive, descriptor) ==
    LET r == run_batches(dir.unexecuted_actions, dir.attack_instances, alive, descriptor,
                         [proj |-> proj, remove |-> {}])
    IN  [dir |-> [dir EXCEPT !.unexecuted_actions = keep_without(@, r.remove),
                             !.attack_instances = MapDrop(@, r.remove)],
         proj |-> r.proj]

\* projectile_lifetimes: the projectiles whose despawn is queued
projectile_lifetimes(proj, t) ==
    {e \in DOMAIN proj : proj[e].created_timestamp < t - proj[e].lifetime}

(* --------------------------- u32 arithmetic ---------------------------- *)
(* A u32 value v is held as v when v < 2^31 and as v - 2^32 otherwise, so  *)
(* wrapping subtraction of nearby values is plain subtraction and the      *)
(* unsigned order is recovered from the signs.                             *)
U32Less(a, b) == IF (a < 0) = (b < 0) THEN a < b ELSE b < 0
U32WrappingSub(a, b) == a - b

(* --------------------------- fighter movement -------------------------- *)
\* MovementAction::default() with the jump fields of the character file
MovementAction(require, required, removed) ==
    [require_available_jumps |-> require, required_jumps |-> required,
     jumps_removed |-> removed, set |-> NoFields, add |-> NoFields]

\* MovementAction::apply_action, on the fighter's descriptor: the facing
\* flag is set or cleared, then the jump requirement is charged.  The
\* result carries whether the u32 subtraction underflowed.
MovementAction_apply_action(action, descriptor, flag, value) ==
    LET d == [descriptor EXCEPT !.direction_facing =
                  IF value THEN @ \cup {flag} ELSE @ \ {flag}]
        charged == /\ action.require_available_jumps
                   /\ ~U32Less(d.available_jumps, action.required_jumps)
                   /\ ~d.char_collision_dominance
    IN  IF charged
        THEN [descriptor |-> [d EXCEPT !.available_jumps =
                                  U32WrappingSub(@, action.jumps_removed)],
              underflow |-> U32Less(d.available_jumps, action.jumps_removed)]
        ELSE [descriptor |-> d, underflow |-> FALSE]

DirFlag(purpose) ==
    CASE purpose = "Up" -> "UP" [] purpose = "Down" -> "DOWN"
      [] purpose = "Left" -> "LEFT" [] OTHER -> "RIGHT"

\* AvailableMovementActions::apply_action: the key's movement action with the
\* facing flag it sets or clears.  Only pressed_up carries a jump requirement
\* in the character file; the other seven actions are MovementAction::default().
AvailableMovementActions_apply_action(input_type, purpose, descriptor, up) ==
    IF purpose \in {"Up", "Down", "Left", "Right"}
    THEN MovementAction_apply_action(
             IF input_type = "JustPressed" /\ purpose = "Up" THEN up
             ELSE MovementAction(FALSE, 1, 1),
             descriptor, DirFlag(purpose), input_type = "JustPressed")
    ELSE [descriptor |-> descriptor, underflow |-> FALSE]

(* ------------------------------ stage First ---------------------------- *)
World == [dir |-> attack_directory, proj |-> projectiles, next |-> next_entity,
          vis |-> visuals]

WithinBounds(w) ==
    /\ w.next <= MaxEntities + 1
    /\ w.dir.previous_used_id <= MaxBatches

\* movement_input_system, one iteration of its loop for a key of fighter f
\* that was just pressed or just released: add_to_buffer, execute_buffer,
\* then the key's movement action.  The keys are visited in HashMap order.
KeyEvent(f, purpose, input_type) ==
    /\ stage = "First" /\ ~panicked
    /\ <<f, purpose>> \notin processed
    /\ Cardinality(processed) < MaxKeyEvents
    /\ processed' = processed \cup {<<f, purpose>>}
    /\ touched' = touched \cup {f}
    /\ IF f \in players
       THEN LET r == execute_buffer(
                         add_to_buffer(attack_buffer[f], input_type, purpose, now),
                         f, player_descriptor[f].direction_facing, World, now)
                m == AvailableMovementActions_apply_action(
                         input_type, purpose, player_descriptor[f], pressed_up)
            IN  /\ WithinBounds(r.w)
                /\ attack_buffer' = [attack_buffer EXCEPT ![f] = r.ab]
                /\ attack_directory' = r.w.dir
                /\ projectiles' = r.w.proj
                /\ next_entity' = r.w.next
                /\ visuals' = r.w.vis
                /\ last_apply' = r.call
                /\ IF m.underflow /\ overflow_checks
                   THEN panicked' = TRUE /\ UNCHANGED player_descriptor
                   ELSE /\ player_descriptor' = [player_descriptor EXCEPT ![f] = m.descriptor]
                        /\ UNCHANGED panicked
       ELSE /\ last_apply' = NoCall
            /\ UNCHANGED <<attack_buffer, attack_directory, projectiles, next_entity,
                           visuals, player_descriptor, panicked>>
    /\ UNCHANGED <<now, stage, ran, players, player_health, commands, pressed_up,
                   overflow_checks, events_read,
                   transforms, dependents>>

\* movement_input_system, an iteration for a key of fighter f that has no
\* edge this frame, visited before any key of f that has one: execute_buffer
\* alone acts (InputKeyboardType::None).
KeyIdle(f) ==
    /\ stage = "First" /\ ~panicked
    /\ f \in players /\ f \notin touched
    /\ touched' = touched \cup {f}
    /\ attack_buffer' = [attack_buffer EXCEPT ![f] = clear_if_stale(@, now)]
    /\ last_apply' = NoCall
    /\ UNCHANGED <<now, stage, ran, processed, players, player_descriptor, player_health,
                   attack_directory, projectiles, next_entity, commands, pressed_up,
                   overflow_checks, events_read, panicked,
                   transforms, dependents, visuals>>

\* movement_input_system returns: every fighter has keys without an edge, so
\* execute_buffer has run for each at this instant; the stage's Commands are
\* applied and stage Update begins.
FinishFirst ==
    /\ stage = "First" /\ ~panicked
    /\ stage' = "Update"
    /\ attack_buffer' = [f \in DOMAIN attack_buffer |-> clear_if_stale(attack_buffer[f], now)]
    /\ processed' = {} /\ touched' = {} /\ ran' = {}
    /\ last_apply' = NoCall
    /\ UNCHANGED <<now, players, player_descriptor, player_health, attack_directory,
                   projectiles, next_entity, commands, pressed_up, overflow_checks,
                   events_read, panicked,
                   transforms, dependents, visuals>>

(* ------------------------------ stage Update --------------------------- *)
\* a system of the set registered on_update(AppStates::LoadGame) may run
\* when it has not run in this frame and collision_process is not mid-loop
MayRun(system) ==
    /\ stage = "Update" /\ ~panicked
    /\ system \notin ran
    /\ events_read = 0

CheckCooldowns ==
    /\ MayRun("check_cooldowns")
    /\ ran' = ran \cup {"check_cooldowns"}
    /\ attack_directory' = [attack_directory EXCEPT !.cooldown = check_cooldowns(@, now)]
    /\ last_apply' = NoCall
    /\ UNCHANGED <<now, stage, processed, touched, players, attack_buffer,
                   player_descriptor, player_health, projectiles, next_entity, commands,
                   pressed_up, overflow_checks, events_read, panicked,
                   transforms, dependents, visuals>>

ExecuteUnusedActions ==
    /\ MayRun("execute_unused_actions")
    /\ ran' = ran \cup {"execute_unused_actions"}
    /\ LET r == execute_unused_actions(attack_directory, projectiles, players,
                                       player_descriptor)
       IN  attack_directory' = r.dir /\ projectiles' = r.proj
    /\ last_apply' = NoCall
    /\ UNCHANGED <<now, stage, processed, touched, players, attack_buffer,
                   player_descriptor, player_health, next_entity, commands,
                   pressed_up, overflow_checks, events_read, panicked,
                   transforms, dependents, visuals>>

ProjectileLifetimes ==
    /\ MayRun("projectile_lifetimes")
    /\ ran' = ran \cup {"projectile_lifetimes"}
    /\ commands' = commands \cup {<<"projectile", e>> : e \in projectile_lifetimes(projectiles, now)}
    /\ last_apply' = NoCall
    /\ UNCHANGED <<now, stage, processed, touched, players, attack_buffer,
                   player_descriptor, player_health, attack_directory, projectiles,
                   next_entity, pressed_up, overflow_checks, events_read, panicked,
                   transforms, dependents, visuals>>

\* The stage ends once every system of the set has run: the queued despawns
\* are applied and the next frame begins dt later.
EndFrame(systems, dt) ==
    /\ stage = "Update" /\ ~panicked
    /\ ran = systems /\ events_read = 0
    /\ now + dt <= MaxTime
    /\ now' = now + dt
    /\ stage' = "First" /\ ran' = {} /\ commands' = {}
    /\ projectiles' = MapDrop(projectiles, {e \in DOMAIN projectiles : <<"projectile", e>> \in commands})
    /\ LET gone == {f \in players : <<"player", f>> \in commands}
       IN  /\ players' = players \ gone
           /\ attack_buffer' = MapDrop(attack_buffer, gone)
           /\ player_descriptor' = MapDrop(player_descriptor, gone)
           /\ player_health' = MapDrop(player_health, gone)
           /\ transforms' = MapDrop(transforms, gone)
    /\ dependents' = MapDrop(dependents,
                             {d \in DOMAIN dependents : <<"dependent", d>> \in commands})
    /\ visuals' = despawn_synced(visuals, {e \in DOMAIN projectiles :
                                              <<"projectile", e>> \in commands})
    /\ last_apply' = NoCall
    /\ UNCHANGED <<processed, touched, attack_directory, next_entity, pressed_up,
                   overflow_checks, events_read, panicked>>

(* ---------------------------- collision events ------------------------- *)
(* A collider is <<owner kind, owner, collider type>>: a child of a        *)
(* fighter's core body, a child of a projectile's body, or a collider of   *)
(* the map.  Every fighter body carries a solid collider, a jump-reset     *)
(* sensor and a death sensor; a projectile body carries a solid collider.  *)
ColliderTypes == {"Solid", "JumpReset", "Death"}
\* the collider types among the children of a fighter's core body
CoreColliders == ColliderTypes
FighterColliders == {<<"player", f, ty>> : f \in players, ty \in CoreColliders}
ProjectileColliders == {<<"projectile", e, "Solid">> : e \in DOMAIN projectiles}
MapColliders == {<<"map", 0, ty>> : ty \in ColliderTypes}
Colliders == FighterColliders \cup ProjectileColliders \cup MapColliders

\* the CollisionEvents rapier can report: two colliders of different bodies
CollisionEvents ==
    {ev \in [type : {"Started", "Stopped"}, removed : BOOLEAN,
             one : Colliders, two : Colliders] :
        <<ev.one[1], ev.one[2]>> # <<ev.two[1], ev.two[2]>>}

\* process_collision_event: each collider is resolved to its parent body and
\* the bodies that are fighters are picked out
process_collision_event(one, two, alive) ==
    LET p1 == one[1] = "player" /\ one[2] \in alive
        p2 == two[1] = "player" /\ two[2] \in alive
    IN  IF p1 /\ p2 THEN [kind |-> "Two", player_one |-> one[2], player_two |-> two[2]]
        ELSE IF p1 THEN [kind |-> "Single", player |-> one[2], original |-> one, other |-> two]
        ELSE IF p2 THEN [kind |-> "Single", player |-> two[2], original |-> two, other |-> one]
        ELSE [kind |-> "None"]

(* The operators below take and return c = [descriptor, health, proj,      *)
(* underflow]: the fighters' descriptors and health, the projectiles, and  *)
(* whether a u32 subtraction has underflowed.                              *)

\* single_update_player_jump_reset
single_update_player_jump_reset(f, potential_jump_reset, collision_type, c) ==
    IF potential_jump_reset[3] # "JumpReset" THEN c
    ELSE IF collision_type = "Started"
    THEN [c EXCEPT !.descriptor[f].available_jumps = c.descriptor[f].maximum_jumps,
                   !.descriptor[f].char_collision_dominance = TRUE]
    ELSE [c EXCEPT !.descriptor[f].available_jumps =
                       U32WrappingSub(c.descriptor[f].maximum_jumps, 1),
                   !.descriptor[f].char_collision_dominance = FALSE,
                   !.underflow = @ \/ U32Less(c.descriptor[f].maximum_jumps, 1)]

\* single_update_player_death
single_update_player_death(f, potential_death, c) ==
    IF potential_death[3] = "Death" THEN [c EXCEPT !.health[f] = 0] ELSE c

\* a Stopped branch that lowers the jumps of dominance holders too
stopped_jump_update_unguarded(f, c) ==
    [c EXCEPT !.descriptor[f].available_jumps =
                  U32WrappingSub(c.descriptor[f].maximum_jumps, 1),
              !.underflow = @ \/ U32Less(c.descriptor[f].maximum_jumps, 1)]

\* the Stopped branch of double_update_player_jump_reset, for one fighter
stopped_jump_update(f, c) ==
    IF c.descriptor[f].char_collision_dominance THEN c
    ELSE [c EXCEPT !.descriptor[f].available_jumps =
                       U32WrappingSub(c.descriptor[f].maximum_jumps, 1),
                   !.underflow = @ \/ U32Less(c.descriptor[f].maximum_jumps, 1)]

\* double_update_player_jump_reset: acts when a child of either fighter is a
\* jump-reset collider
double_update_player_jump_reset(player_one, player_two, collision_type, c) ==
    IF "JumpReset" \notin CoreColliders THEN c
    ELSE IF collision_type = "Started"
    THEN [c EXCEPT !.descriptor[player_one].available_jumps =
                       c.descriptor[player_one].maximum_jumps,
                   !.descriptor[player_two].available_jumps =
                       c.descriptor[player_two].maximum_jumps]
    ELSE stopped_jump_update(player_two, stopped_jump_update(player_one, c))

\* ProjectileIdentifier::apply_projectile
apply_projectile(e, f, c) ==
    [c EXCEPT !.health[f] = @ - c.proj[e].damage,
              !.proj[e].pierce = U32WrappingSub(@, 1),
              !.underflow = @ \/ U32Less(c.proj[e].pierce, 1)]

\* projectile_hit_collision_event: char_entity is the fighter's collider of a
\* Single event, projectile_entity the other collider
projectile_hit_collision_event(char_entity, projectile_entity, alive, c) ==
    IF projectile_entity[1] # "projectile" \/ projectile_entity[2] \notin DOMAIN c.proj THEN c
    ELSE IF char_entity[2] = c.proj[projectile_entity[2]].parent THEN c
    ELSE IF char_entity[3] # "Solid" THEN c
    ELSE IF char_entity[2] \notin alive THEN c
    ELSE apply_projectile(projectile_entity[2], char_entity[2], c)

\* collision_process, the body of its loop for one event
collision_process(ev, alive, c) ==
    LET found == process_collision_event(ev.one, ev.two, alive)
    IN  IF ev.removed \/ found.kind = "None" THEN c
        ELSE IF found.kind = "Two"
        THEN double_update_player_jump_reset(found.player_one, found.player_two, ev.type, c)
        ELSE IF ev.type = "Stopped"
        THEN single_update_player_jump_reset(found.player, found.other, "Stopped", c)
        ELSE projectile_hit_collision_event(found.original, found.other, alive,
                 single_update_player_death(found.player, found.other,
                     single_update_player_jump_reset(found.player, found.other, "Started", c)))

\* health_despawn_check: the fighters whose despawn is queued
health_despawn_check(health) == {f \in DOMAIN health : health[f] <= 0}

\* enforce_char_collision_dominance
enforce_char_collision_dominance(descriptor) ==
    [f \in DOMAIN descriptor |->
        IF descriptor[f].char_collision_dominance
        THEN [descriptor[f] EXCEPT !.available_jumps = descriptor[f].maximum_jumps]
        ELSE descriptor[f]]

(* ------------------------ collider synchronization --------------------- *)
(* A Transform is a translation (one component) and a rotation about z,    *)
(* counted in quarter turns.  The entities load_character spawns beside a  *)
(* fighter's core body are named <<fighter, kind>>.                        *)
\* Largest translation the physics step gives a body.
MaxPos == 1
\* Largest rotation, in quarter turns, the physics step gives a body.
MaxAngle == 1

Transform(translation, rotation) == [translation |-> translation, rotation |-> rotation]

\* the character file: the sprite of the core follows the body's rotation,
\* the limb is an SVG drawn a quarter turn round that does not; the health
\* bar and the two texts float at a distance from the body
CharComponents ==
    [core |-> [enable_sync_rotation |-> TRUE, rotation |-> 0, svg |-> NoneOpt],
     limb |-> [enable_sync_rotation |-> FALSE, rotation |-> 1, svg |-> Some(1)]]
Distances == [healthbar |-> 1, player_id_text |-> 2, attack_text |-> 2]

\* ColliderSyncEntity.synced_objects of fighter f's core body, as spawn_core
\* and spawn_physics_object_with_sync assemble it: (entity, rotation flag)
synced_objects(f) ==
    << <<<<f, "healthbar">>, FALSE>>,
       <<<<f, "player_id_text">>, FALSE>>,
       <<<<f, "attack_text">>, FALSE>>,
       <<<<f, "core">>, CharComponents.core.enable_sync_rotation>>,
       <<<<f, "limb">>, CharComponents.limb.enable_sync_rotation>> >>

\* the SyncTransformOffset component of a synced entity
SyncTransformOffset(d) ==
    IF d[2] \in DOMAIN Distances THEN Transform(Distances[d[2]], 0) ELSE Transform(0, 0)

\* the SVG drawn by a synced entity, if any: half its width
SvgOf(d) == IF d[2] \in DOMAIN CharComponents THEN CharComponents[d[2]].svg ELSE NoneOpt

\* the Transform a synced entity is spawned with
SpawnedTransform(d) ==
    Transform(0, IF d[2] \in DOMAIN CharComponents THEN CharComponents[d[2]].rotation ELSE 0)

\* the x component of the vector (v, 0) turned by r quarter turns
Turned(v, r) == CASE r % 4 = 0 -> v [] r % 4 = 2 -> 0 - v [] OTHER -> 0

\* update_transform_svg: the translation is moved back by the turned centre
update_transform_svg(centre, t) ==
    [t EXCEPT !.translation = @ - Turned(centre, t.rotation)]

\* Quat + Quat, the value of std::ops::Add::add
QuatAdd(a, b) == a + b

\* a sync pass that gives every synced entity the rotation of the body
sync_entity_turn_all(collider_position, offset, svg, sync_flags, entity_transform) ==
    LET turned == Transform(collider_position.translation + offset.translation,
                            collider_position.rotation)
    IN  IF svg # NoneOpt THEN update_transform_svg(svg[1], turned) ELSE turned

\* sync_objects_colliders, the body of its inner loop for a synced entity
\* with the given SyncTransformOffset and SVG under a body at collider_position
sync_entity(collider_position, offset, svg, sync_flags, entity_transform) ==
    LET moved == [entity_transform EXCEPT !.translation = collider_position.translation]
        turned == IF sync_flags THEN [moved EXCEPT !.rotation = collider_position.rotation]
                  ELSE moved
        \* rotation.add(offset.rotation) returns the sum and stores nothing
        sum == QuatAdd(turned.rotation, offset.rotation)
        shifted == [turned EXCEPT !.translation = @ + offset.translation]
    IN  IF svg # NoneOpt THEN update_transform_svg(svg[1], shifted) ELSE shifted

\* sync_objects_colliders, the z component of a synced entity's translation:
\* the entity keeps its own z when it is moved to the body, and then the
\* whole SyncTransformOffset translation is added to it
sync_entity_z(sync_offset, entity_z) ==
    LET kept == entity_z
    IN  kept + sync_offset

\* sync_objects_colliders over the projectile bodies: every body that exists
\* places the visual entity of its synced_objects
sync_projectile_visuals(proj, vis) ==
    [i \in 1..Len(vis) |->
        IF vis[i].body # NoneOpt /\ vis[i].body[1] \in DOMAIN proj
        THEN [vis[i] EXCEPT !.z = sync_entity_z(vis[i].sync_offset, @)]
        ELSE vis[i]]

\* the flag under which entity d is listed in the synced_objects of fighter f
FlagOf(f, d) ==
    LET n == CHOOSE n \in 1..Len(synced_objects(f)) : synced_objects(f)[n][1] = d
    IN  synced_objects(f)[n][2]

\* sync_objects_colliders: every body with a ColliderSyncEntity places the
\* entities of its list that still exist
sync_objects_colliders(bodies, deps) ==
    [d \in DOMAIN deps |->
        IF d[1] \in DOMAIN bodies
        THEN sync_entity(bodies[d[1]], SyncTransformOffset(d), SvgOf(d), FlagOf(d[1], d), deps[d])
        ELSE deps[d]]

\* a despawn_self that forgets every synced entity
despawn_self_none(f) == {}

\* ColliderSyncEntity::despawn_self: the despawns it queues
despawn_self(f) ==
    {<<"dependent", synced_objects(f)[n][1]>> : n \in 1..Len(synced_objects(f))}

\* the synced entities of a set of fighters as load_character spawns them,
\* placed by the sync passes that run before the match starts
SpawnedDependents(fs) ==
    LET ds == UNION {{synced_objects(f)[n][1] : n \in 1..Len(synced_objects(f))} : f \in fs}
    IN  sync_objects_colliders([f \in fs |-> Transform(0, 0)],
                               [d \in ds |-> SpawnedTransform(d)])

(* ------------------------------ match start ---------------------------- *)
\* PlayerHealth::maximum_health of the character file
maximum_health == 2

\* the components spawn_core gives a fighter's core body
CoreDescriptor(maximum_jumps) ==
    [maximum_jumps |-> maximum_jumps, available_jumps |-> 0,
     char_collision_dominance |-> FALSE, direction_facing |-> {"NONE"}]

\* the state when AppStates::LoadGame is entered: the resources as main
\* inserts them, the fighters as load_selected_characters spawns them
MatchStart(maximum_jumps, up) ==
    /\ now = 1
    /\ stage = "First" /\ ran = {} /\ processed = {} /\ touched = {}
    /\ players = Fighters
    /\ attack_buffer = [f \in Fighters |-> EmptyBuffer]
    /\ player_descriptor = [f \in Fighters |-> CoreDescriptor(maximum_jumps)]
    /\ player_health = [f \in Fighters |-> maximum_health]
    /\ attack_directory = [attack_instances |-> EmptyMap, previous_used_id |-> 0,
                           unexecuted_actions |-> <<>>,
                           cooldown |-> [f \in Fighters |-> EmptyMap]]
    /\ projectiles = EmptyMap /\ next_entity = 1 /\ commands = {}
    /\ pressed_up = up
    /\ overflow_checks \in BOOLEAN
    /\ events_read = 0
    /\ last_apply = NoCall
    /\ panicked = FALSE
    /\ transforms = [f \in players |-> Transform(0, 0)]
    /\ dependents = SpawnedDependents(players)
    /\ visuals = <<>>

(* ---------------- specification of the attack pipeline ----------------- *)
(* Frames in which no collision event arrives: the fighters press attack,  *)
(* reset and vertical direction keys; the systems that act on the attack   *)
(* state run in any order in stage Update.                                 *)
AttackSystems == {"check_cooldowns", "execute_unused_actions", "projectile_lifetimes"}
AttackKeys == {"Atk1", "Atk2", "Reset", "Up", "Down"}

InitAttack == MatchStart(1, MovementAction(FALSE, 1, 1))

NextAttack ==
    \/ \E f \in ActiveFighters, purpose \in AttackKeys, input_type \in KeyEdges :
           KeyEvent(f, purpose, input_type)
    \/ \E f \in Fighters : KeyIdle(f)
    \/ FinishFirst
    \/ CheckCooldowns
    \/ ExecuteUnusedActions
    \/ ProjectileLifetimes
    \/ \E dt \in 1..MaxDelta : EndFrame(AttackSystems, dt)

SpecAttack == InitAttack /\ [][NextAttack]_vars

(* ------------------ stage Update: the collision systems ---------------- *)
Combat == [descriptor |-> player_descriptor, health |-> player_health,
           proj |-> projectiles, underflow |-> FALSE]

\* collision_process reads the next CollisionEvent of the frame
CollisionEvent(ev) ==
    /\ stage = "Update" /\ ~panicked
    /\ "collision_process" \notin ran
    /\ events_read < MaxEvents
    /\ events_read' = events_read + 1
    /\ LET c == collision_process(ev, players, Combat)
       IN  IF c.underflow /\ overflow_checks
           THEN /\ panicked' = TRUE
                /\ UNCHANGED <<player_descriptor, player_health, projectiles>>
           ELSE /\ player_descriptor' = c.descriptor
                /\ player_health' = c.health
                /\ projectiles' = c.proj
                /\ UNCHANGED panicked
    /\ last_apply' = NoCall
    /\ UNCHANGED <<now, stage, ran, processed, touched, players, attack_buffer,
                   attack_directory, next_entity, commands, pressed_up, overflow_checks,
                   transforms, dependents, visuals>>

\* collision_process has read every event of the frame and returns
CollisionProcessReturns ==
    /\ stage = "Update" /\ ~panicked
    /\ "collision_process" \notin ran
    /\ ran' = ran \cup {"collision_process"}
    /\ events_read' = 0
    /\ last_apply' = NoCall
    /\ UNCHANGED <<now, stage, processed, touched, players, attack_buffer,
                   player_descriptor, player_health, attack_directory, projectiles,
                   next_entity, commands, pressed_up, overflow_checks, panicked,
                   transforms, dependents, visuals>>

HealthDespawnCheck ==
    /\ MayRun("health_despawn_check")
    /\ ran' = ran \cup {"health_despawn_check"}
    /\ commands' = commands
                    \cup UNION {despawn_self(f) : f \in health_despawn_check(player_health)}
                    \cup {<<"player", f>> : f \in health_despawn_check(player_health)}
    /\ last_apply' = NoCall
    /\ UNCHANGED <<now, stage, processed, touched, players, attack_buffer,
                   player_descriptor, player_health, attack_directory, projectiles,
                   next_entity, pressed_up, overflow_checks, events_read, panicked,
                   transforms, dependents, visuals>>

EnforceCharCollisionDominance ==
    /\ MayRun("enforce_char_collision_dominance")
    /\ ran' = ran \cup {"enforce_char_collision_dominance"}
    /\ player_descriptor' = enforce_char_collision_dominance(player_descriptor)
    /\ last_apply' = NoCall
    /\ UNCHANGED <<now, stage, processed, touched, players, attack_buffer,
                   player_health, attack_directory, projectiles, next_entity, commands,
                   pressed_up, overflow_checks, events_read, panicked,
                   transforms, dependents, visuals>>

\* sync_objects_colliders runs: it is added to stage Update outside the
\* set, without a label and without a run criterion
SyncObjectsColliders ==
    /\ MayRun("sync_objects_colliders")
    /\ ran' = ran \cup {"sync_objects_colliders"}
    /\ dependents' = sync_objects_colliders(transforms, dependents)
    /\ visuals' = sync_projectile_visuals(projectiles, visuals)
    /\ last_apply' = NoCall
    /\ UNCHANGED <<now, stage, processed, touched, players, attack_buffer,
                   player_descriptor, player_health, attack_directory, projectiles,
                   next_entity, commands, pressed_up, overflow_checks, events_read,
                   panicked, transforms>>

\* the physics plugin wrote the stepped position of fighter f's body back to
\* its Transform after the previous frame's stage Update
PhysicsWriteback(f, translation, rotation) ==
    /\ stage = "First" /\ ~panicked
    /\ processed = {} /\ touched = {}
    /\ f \in players
    /\ transforms[f] # Transform(translation, rotation)
    /\ transforms' = [transforms EXCEPT ![f] = Transform(translation, rotation)]
    /\ last_apply' = NoCall
    /\ UNCHANGED <<now, stage, ran, processed, touched, players, attack_buffer,
                   player_descriptor, player_health, attack_directory, projectiles,
                   next_entity, commands, pressed_up, overflow_checks, events_read,
                   panicked, dependents, visuals>>

(* -------------------- specification of hit resolution ------------------ *)
(* The last frames explored, fighter 1 having made its 1-1 attack in the   *)
(* frame before them: its projectile is in flight, collision events        *)
(* arrive, the active fighters press and release the jump key.  The        *)
(* character file's maximum_jumps, and required_jumps and jumps_removed of *)
(* its jump action, range over 0..MaxJumps.                                *)
CollisionSystems ==
    {"collision_process", "health_despawn_check", "enforce_char_collision_dominance",
     "projectile_lifetimes"}

\* the world after the frame at instant t in which fighter 1, facing
\* nowhere, pressed 1-1 as the first attack of the match
AfterFirstAttack(t) ==
    LET w == apply_attack(1, <<"One", "One">>, {"NONE"},
                 [dir |-> [attack_instances |-> EmptyMap, previous_used_id |-> 0,
                           unexecuted_actions |-> <<>>,
                           cooldown |-> [f \in Fighters |-> EmptyMap]],
                  proj |-> EmptyMap, next |-> 1, vis |-> <<>>], t)
        r == execute_unused_actions(w.dir, w.proj, Fighters,
                 [f \in Fighters |-> CoreDescriptor(1)])
    IN  [dir |-> [r.dir EXCEPT !.cooldown = check_cooldowns(@, t)],
         proj |-> r.proj, next |-> w.next, vis |-> w.vis]

InitCollision ==
    /\ now = MaxTime - 1
    /\ stage = "First" /\ ran = {} /\ processed = {} /\ touched = {}
    /\ players = Fighters
    /\ attack_buffer = [f \in Fighters |-> EmptyBuffer]
    /\ \E maximum_jumps \in 0..MaxJumps :
           player_descriptor = [f \in Fighters |-> CoreDescriptor(maximum_jumps)]
    /\ player_health = [f \in Fighters |-> maximum_health]
    /\ \E w \in {AfterFirstAttack(MaxTime - 2)} :
           /\ attack_directory = w.dir
           /\ projectiles = w.proj
           /\ next_entity = w.next
           /\ visuals = w.vis
    /\ commands = {}
    /\ \E required_jumps \in 0..MaxJumps, jumps_removed \in 0..MaxJumps :
           pressed_up = MovementAction(TRUE, required_jumps, jumps_removed)
    /\ overflow_checks \in BOOLEAN
    /\ events_read = 0
    /\ last_apply = NoCall
    /\ panicked = FALSE
    /\ transforms = [f \in players |-> Transform(0, 0)]
    /\ dependents = SpawnedDependents(players)

NextCollision ==
    \/ \E f \in ActiveFighters, input_type \in KeyEdges : KeyEvent(f, "Up", input_type)
    \/ FinishFirst
    \/ \E ev \in CollisionEvents : CollisionEvent(ev)
    \/ CollisionProcessReturns
    \/ HealthDespawnCheck
    \/ EnforceCharCollisionDominance
    \/ ProjectileLifetimes
    \/ \E dt \in 1..MaxDelta : EndFrame(CollisionSystems, dt)

SpecCollision == InitCollision /\ [][NextCollision]_vars

(* ------------------------ claims: attack buffer ------------------------ *)
AttackKeyOf(purpose) == IF purpose = "Atk1" THEN "One" ELSE "Two"

\* C1: from an empty buffer, a press of an attack key is recorded alone with
\* the instant of the press; a second press of an attack key, handled while
\* final_timestamp + attack_buffer_reset_time >= now, hands the combo key
\* (first, second) to apply_attack and leaves the buffer empty.
C1_TwoPressesResolveCombo ==
    [][\A f \in ActiveFighters, purpose \in {"Atk1", "Atk2"} :
          (KeyEvent(f, purpose, "JustPressed") /\ f \in players) =>
              LET ab == attack_buffer[f]
              IN  /\ ab.buffer = <<>> =>
                        /\ attack_buffer'[f] = [buffer |-> <<AttackKeyOf(purpose)>>,
                                                final_timestamp |-> now]
                        /\ last_apply' = NoCall
                  /\ (Len(ab.buffer) = 1
                        /\ ab.final_timestamp + attack_buffer_reset_time >= now) =>
                        /\ last_apply'.player = f
                        /\ last_apply'.key = <<ab.buffer[1], AttackKeyOf(purpose)>>
                        /\ attack_buffer'[f] = EmptyBuffer]_vars

\* C1 witness: fighter 1's combo 1-2 has just been handed to apply_attack
C1_Witness ==
    /\ last_apply.player = 1 /\ last_apply.key = <<"One", "Two">>
    /\ attack_buffer[1] = EmptyBuffer

\* C2: when a key iteration of a fighter runs more than
\* attack_buffer_reset_time after the single press held in the buffer, it
\* makes no call of apply_attack and leaves the buffer empty, whatever key
\* edge the iteration handles.
C2_StaleBufferNeverFires ==
    [][\A f \in ActiveFighters, purpose \in AttackKeys, input_type \in KeyEdges :
          (/\ KeyEvent(f, purpose, input_type) /\ f \in players
           /\ Len(attack_buffer[f].buffer) = 1
           /\ now - attack_buffer[f].final_timestamp > attack_buffer_reset_time) =>
              /\ last_apply' = NoCall
              /\ attack_buffer'[f].buffer = <<>>]_vars

(* ------------------------ claims: cooldown gate ------------------------ *)
\* C3: a call of apply_attack for a bound slot executes the attack and
\* starts its cooldown when the slot has no cooldown entry, is suppressed
\* while now - cooldown_start < cooldown_duration, and executes the attack
\* again once now - cooldown_start >= cooldown_duration.
C3_CooldownGate ==
    [][\A f \in ActiveFighters :
          (last_apply'.player = f /\ AvailableAttacks[attack_type_of(last_apply'.key)] # NoneOpt) =>
              LET a == attack_type_of(last_apply'.key)
                  cd == attack_directory.cooldown[f]
              IN  /\ a \notin DOMAIN cd =>
                        /\ last_apply'.outcome = "executed"
                        /\ attack_directory'.cooldown[f][a] =
                               [cooldown_start |-> now,
                                cooldown_duration |-> AvailableAttacks[a][1].cooldown]
                  /\ (a \in DOMAIN cd /\ now - cd[a].cooldown_start < cd[a].cooldown_duration) =>
                        last_apply'.outcome = "suppressed"
                  /\ (a \in DOMAIN cd /\ now - cd[a].cooldown_start >= cd[a].cooldown_duration) =>
                        last_apply'.outcome = "executed"]_vars

(* ----------------------- claims: deferred batches ---------------------- *)
Batches == attack_directory.unexecuted_actions
InstanceMapOf(b) == attack_directory.attack_instances[b.instance_id]
FacingOf(f) == FacingName(get_full_dir_flags(player_descriptor[f].direction_facing))

\* the projectile entities a batch's MoveActions are paired with under the
\* owner's present facing, each with the movement template aimed at it
PairedItems(b) ==
    {<<m, e>> \in
        UNION {{<<MovementActionMap[a.ids[FacingOf(b.player_id)]][i], e>> :
                   i \in 1..Len(MovementActionMap[a.ids[FacingOf(b.player_id)]]),
                   e \in DOMAIN projectiles} :
               a \in {b.actions[n] : n \in 1..Len(b.actions)}} :
        /\ <<FacingOf(b.player_id), m.instance_affected_id>> \in DOMAIN InstanceMapOf(b)
        /\ \E j \in 1..Len(InstanceMapOf(b)[<<FacingOf(b.player_id), m.instance_affected_id>>]) :
               InstanceMapOf(b)[<<FacingOf(b.player_id), m.instance_affected_id>>][j] = e}

\* the fields a projectile body holds after receiving a movement template once
Received(m, body) ==
    [k \in PhysFields |->
        IF m.set[k] # NoneOpt THEN m.set[k][1]
        ELSE IF m.add[k] # NoneOpt THEN body[k] + m.add[k][1]
        ELSE body[k]]

\* C4: in the deferred phase, every projectile spawned by the batch's attack
\* under the tag and facing of its MoveAction receives the action's set/add
\* fields, having received none before; no projectile ever receives them a
\* second time, and no other step changes a projectile's body.
C4_PairedMoveAppliedOnce ==
    [][/\ ExecuteUnusedActions =>
            \A n \in 1..Len(Batches) : \A item \in PairedItems(Batches[n]) :
                /\ projectiles[item[2]].applied = 0
                /\ projectiles'[item[2]].applied = 1
                /\ projectiles'[item[2]].body = Received(item[1], projectiles[item[2]].body)
       /\ \A e \in DOMAIN projectiles' : projectiles'[e].applied <= 1
       /\ ~ExecuteUnusedActions =>
            \A e \in DOMAIN projectiles \cap DOMAIN projectiles' :
                projectiles'[e].body = projectiles[e].body]_vars

\* C4 witness: a projectile spawned by fighter 1 has received its impulse
C4_Witness ==
    \E e \in DOMAIN projectiles :
        /\ projectiles[e].parent = 1 /\ projectiles[e].applied = 1
        /\ projectiles[e].body["linvel"] = 2
        /\ Batches = <<>>

\* the projectile entities some queued batch's InstanceMap refers to
Referenced ==
    UNION {UNION {{InstanceMapOf(Batches[n])[k][j] : j \in 1..Len(InstanceMapOf(Batches[n])[k])} :
                     k \in DOMAIN InstanceMapOf(Batches[n])} :
           n \in 1..Len(Batches)}

\* C5: the deferred phase removes a batch whose InstanceMap is empty, with
\* its InstanceMap, and changes no projectile that no queued batch refers to.
C5_EmptyInstanceMapIsInert ==
    [][ExecuteUnusedActions =>
          /\ \A n \in 1..Len(Batches) :
                InstanceMapOf(Batches[n]) = EmptyMap =>
                    /\ \A i \in 1..Len(attack_directory'.unexecuted_actions) :
                           attack_directory'.unexecuted_actions[i].instance_id
                               # Batches[n].instance_id
                    /\ Batches[n].instance_id \notin DOMAIN attack_directory'.attack_instances
          /\ \A e \in DOMAIN projectiles \ Referenced : projectiles'[e] = projectiles[e]]_vars

\* C5 witness: fighter 1 faced down, its 1-1 attack deferred a MoveAction
\* and spawned nothing, and the deferred phase has run
C5_Witness ==
    /\ "execute_unused_actions" \in ran
    /\ "OneOne" \in DOMAIN attack_directory.cooldown[1]
    /\ attack_directory.cooldown[1]["OneOne"].cooldown_start = now
    /\ attack_directory.previous_used_id = 1 /\ next_entity = 1
    /\ Batches = <<>>

PendingFirstAttack ==
    apply_attack(1, <<"One", "One">>, {"NONE"},
        [dir |-> [attack_instances |-> EmptyMap, previous_used_id |-> 0,
                  unexecuted_actions |-> <<>>,
                  cooldown |-> [f \in Fighters |-> EmptyMap]],
         proj |-> EmptyMap, next |-> 1, vis |-> <<>>], 1)

InitDeferred ==
    /\ now = 1
    /\ stage = "Update" /\ ran = {} /\ processed = {} /\ touched = {}
    /\ players \in {Fighters, Fighters \ {1}}
    /\ attack_buffer = [f \in players |-> EmptyBuffer]
    /\ player_descriptor = [f \in players |-> CoreDescriptor(1)]
    /\ player_health = [f \in players |-> maximum_health]
    /\ attack_directory = PendingFirstAttack.dir
    /\ projectiles = PendingFirstAttack.proj
    /\ next_entity = PendingFirstAttack.next
    /\ commands = {}
    /\ pressed_up = MovementAction(FALSE, 1, 1)
    /\ overflow_checks \in BOOLEAN
    /\ events_read = 0
    /\ last_apply = NoCall
    /\ panicked = FALSE
    /\ transforms = [f \in players |-> Transform(0, 0)]
    /\ dependents = SpawnedDependents(players)
    /\ visuals = PendingFirstAttack.vis

SpecDeferred == InitDeferred /\ [][NextAttack]_vars

(* ------------------------ claims: hit resolution ----------------------- *)
\* the Started events, not flagged REMOVED, between a projectile's collider
\* and a fighter's collider
HitEvents ==
    {ev \in CollisionEvents :
        /\ ev.type = "Started" /\ ~ev.removed
        /\ {ev.one[1], ev.two[1]} = {"projectile", "player"}}
ProjectileIn(ev) == IF ev.one[1] = "projectile" THEN ev.one[2] ELSE ev.two[2]
StruckIn(ev) == IF ev.one[1] = "player" THEN ev.one ELSE ev.two

\* C7: a contact of a projectile's collider with a fighter's collider takes
\* the projectile's damage off the fighter's health and exactly 1 off the
\* projectile's pierce when the struck collider is solid and its fighter is
\* not the projectile's spawner, and changes neither health nor pierce in
\* every other case.
C7_HitExactlyWhenSolidAndForeign ==
    [][\A ev \in HitEvents :
          CollisionEvent(ev) =>
              LET e == ProjectileIn(ev)
                  f == StruckIn(ev)[2]
              IN  IF StruckIn(ev)[3] = "Solid" /\ f # projectiles[e].parent
                  THEN /\ ~panicked'
                       /\ player_health'[f] = player_health[f] - projectiles[e].damage
                       /\ projectiles'[e].pierce = projectiles[e].pierce - 1
                       /\ projectiles'[e].pierce >= 0
                  ELSE /\ player_health' = player_health
                       /\ projectiles' = projectiles]_vars

\* C8: the current health of every fighter is at least 0.
C8_HealthNeverNegative ==
    \A f \in players : player_health[f] >= 0

\* C9: a projectile whose pierce is 0 does not live into the next frame, and
\* a contact of a projectile whose pierce is 0 registers no hit: it changes
\* no health, leaves the pierce counter at 0 and does not abort the process.
C9_SpentProjectileGone ==
    [][/\ (stage = "Update" /\ stage' = "First") =>
              \A e \in DOMAIN projectiles' : projectiles'[e].pierce # 0
       /\ \A ev \in HitEvents :
              (CollisionEvent(ev) /\ projectiles[ProjectileIn(ev)].pierce = 0) =>
                  /\ player_health' = player_health
                  /\ projectiles' = projectiles
                  /\ ~panicked']_vars

\* C10: the available jumps of every fighter are at most its maximum jumps,
\* compared as unsigned 32-bit numbers.
C10_JumpsWithinMaximum ==
    \A f \in players :
        ~U32Less(player_descriptor[f].maximum_jumps, player_descriptor[f].available_jumps)

(* --------------------- claims: two-fighter contacts -------------------- *)
\* the events, not flagged REMOVED, between colliders of two fighters of
\* which one at least is a jump-reset collider
TwoFighterEvents ==
    {ev \in CollisionEvents :
        /\ ~ev.removed
        /\ ev.one[1] = "player" /\ ev.two[1] = "player"
        /\ "JumpReset" \in {ev.one[3], ev.two[3]}}

\* C11: a jump-reset contact between two fighters sets the available jumps
\* of both to their maximum when it starts and lowers the available jumps of
\* both when it stops, and changes no field of any other fighter.
C11_TwoFighterJumpReset ==
    [][\A ev \in TwoFighterEvents :
          CollisionEvent(ev) =>
              LET pair == {ev.one[2], ev.two[2]}
              IN  /\ ~panicked'
                  /\ \A f \in pair :
                        IF ev.type = "Started"
                        THEN player_descriptor'[f].available_jumps =
                                 player_descriptor[f].maximum_jumps
                        ELSE U32Less(player_descriptor'[f].available_jumps,
                                     player_descriptor[f].available_jumps)
                  /\ \A g \in players \ pair :
                        /\ player_descriptor'[g] = player_descriptor[g]
                        /\ player_health'[g] = player_health[g]]_vars

(* ----------------------- claims: cooldown table ------------------------ *)
\* C12: every entry present in a fighter's cooldown table has a remaining
\* duration, cooldown_duration - (now - cooldown_start), of at least 0.
C12_CooldownRemainingNonNegative ==
    \A f \in DOMAIN attack_directory.cooldown :
        \A a \in DOMAIN attack_directory.cooldown[f] :
            LET cd == attack_directory.cooldown[f][a]
            IN  cd.cooldown_duration - (now - cd.cooldown_start) >= 0

(* ------------ specification of the facing of the fighters -------------- *)
(* The match with the four direction keys and attack key 1 in play: every  *)
(* set of held directions is reached, and attacks are executed under it.   *)
FacingKeys == {"Up", "Down", "Left", "Right", "Atk1"}

NextFacing ==
    \/ \E f \in ActiveFighters, purpose \in FacingKeys, input_type \in KeyEdges :
           KeyEvent(f, purpose, input_type)
    \/ \E f \in Fighters : KeyIdle(f)
    \/ FinishFirst
    \/ CheckCooldowns
    \/ ExecuteUnusedActions
    \/ ProjectileLifetimes
    \/ \E dt \in 1..MaxDelta : EndFrame(AttackSystems, dt)

SpecFacing == InitAttack /\ [][NextFacing]_vars

(* ---------------------- claims: direction resolver --------------------- *)
\* the flags of FullDirectionFacingFlags that make up each canonical facing
CanonicalFacing ==
    [None |-> {"NONE"}, Up |-> {"UP"}, Down |-> {"DOWN"}, Left |-> {"LEFT"},
     Right |-> {"RIGHT"}, UpLeft |-> {"UP", "LEFT"}, UpRight |-> {"UP", "RIGHT"},
     DownLeft |-> {"DOWN", "LEFT"}, DownRight |-> {"DOWN", "RIGHT"}]

\* the facing a set of held directions stands for: opposite directions
\* cancel, what remains is read vertical first
HeldFacing(held) ==
    LET v == IF "UP" \in held /\ "DOWN" \notin held THEN "Up"
             ELSE IF "DOWN" \in held /\ "UP" \notin held THEN "Down" ELSE ""
        h == IF "LEFT" \in held /\ "RIGHT" \notin held THEN "Left"
             ELSE IF "RIGHT" \in held /\ "LEFT" \notin held THEN "Right" ELSE ""
    IN  IF v = "" /\ h = "" THEN "None" ELSE v \o h

\* C13: for every set of held directions the resolver returns the flags of
\* exactly one canonical facing, the one left when up/down and left/right
\* cancel; {up,down}, {left,right} and {} give none, {up,left} gives up-left
\* and {up,down,left} gives left; the facing variant matched on the result is
\* that facing.
C13_ResolverCanonical ==
    /\ \A f \in players :
          LET held == player_descriptor[f].direction_facing \cap DirBits
              full == get_full_dir_flags(player_descriptor[f].direction_facing)
          IN  /\ full = CanonicalFacing[HeldFacing(held)]
              /\ FacingName(full) = HeldFacing(held)
              /\ held = {"UP", "DOWN"} => full = {"NONE"}
              /\ held = {"LEFT", "RIGHT"} => full = {"NONE"}
              /\ held = {"UP", "LEFT"} => full = {"UP", "LEFT"}
              /\ held = {} => full = {"NONE"}
              /\ held = {"UP", "DOWN", "LEFT"} => full = {"LEFT"}
    /\ \A n \in DOMAIN attack_directory.attack_instances :
          \A k \in DOMAIN attack_directory.attack_instances[n] :
              k[1] \in DOMAIN CanonicalFacing

\* C13 witness: fighter 1 holds up, down and left and has executed its 1-1
\* attack, whose projectile is registered under facing left
C13_Witness ==
    /\ player_descriptor[1].direction_facing \cap DirBits = {"UP", "DOWN", "LEFT"}
    /\ \E n \in DOMAIN attack_directory.attack_instances :
           <<"Left", "shot">> \in DOMAIN attack_directory.attack_instances[n]

(* ----------------------- specification of one frame -------------------- *)
(* Whole frames of a match: fighter 1 presses its first attack key, and in *)
(* stage Update the deferred batches are executed, the synced entities are *)
(* placed and the collision events are processed, in whatever order the    *)
(* executor picks.                                                         *)
FrameSystems == {"execute_unused_actions", "sync_objects_colliders", "collision_process"}

NextFrame ==
    \/ \E f \in ActiveFighters, input_type \in KeyEdges : KeyEvent(f, "Atk1", input_type)
    \/ \E f \in Fighters : KeyIdle(f)
    \/ FinishFirst
    \/ ExecuteUnusedActions
    \/ SyncObjectsColliders
    \/ \E ev \in CollisionEvents : CollisionEvent(ev)
    \/ CollisionProcessReturns
    \/ \E dt \in 1..MaxDelta : EndFrame(FrameSystems, dt)

\* the last frames explored of a match in which no key was pressed before
InitFrame ==
    /\ now = MaxTime - 1
    /\ stage = "First" /\ ran = {} /\ processed = {} /\ touched = {}
    /\ players = Fighters
    /\ attack_buffer = [f \in Fighters |-> EmptyBuffer]
    /\ player_descriptor = [f \in Fighters |-> CoreDescriptor(1)]
    /\ player_health = [f \in Fighters |-> maximum_health]
    /\ attack_directory = [attack_instances |-> EmptyMap, previous_used_id |-> 0,
                           unexecuted_actions |-> <<>>,
                           cooldown |-> [f \in Fighters |-> EmptyMap]]
    /\ projectiles = EmptyMap /\ next_entity = 1 /\ commands = {}
    /\ pressed_up = MovementAction(FALSE, 1, 1)
    /\ overflow_checks \in BOOLEAN
    /\ events_read = 0
    /\ last_apply = NoCall
    /\ panicked = FALSE
    /\ transforms = [f \in players |-> Transform(0, 0)]
    /\ dependents = SpawnedDependents(players)
    /\ visuals = <<>>

SpecFrame == InitFrame /\ [][NextFrame]_vars

(* ------------------ specification of the sync pass --------------------- *)
(* The physics step moves and turns the bodies between frames; in stage    *)
(* Update the synced entities are placed and the fighters without health   *)
(* are despawned with their sync groups.                                   *)
SyncSystems == {"sync_objects_colliders", "health_despawn_check"}

NextSync ==
    \/ \E f \in Fighters, translation \in 0..MaxPos, rotation \in 0..MaxAngle :
           PhysicsWriteback(f, translation, rotation)
    \/ FinishFirst
    \/ SyncObjectsColliders
    \/ HealthDespawnCheck
    \/ \E dt \in 1..MaxDelta : EndFrame(SyncSystems, dt)

SpecSync == InitAttack /\ [][NextSync]_vars

\* the Transforms and SyncTransformOffsets within the bounds
Transforms == {Transform(t, r) : t \in 0..MaxPos, r \in 0..MaxAngle}

\* the synced entities listed with the rotation flag disabled
RotationFree == {d \in DOMAIN dependents : d[1] \in DOMAIN transforms /\ ~FlagOf(d[1], d)}

(* C14: a dependent whose rotation-inherit flag is disabled has the same   *)
(* rotation after the sync pass as before it: in every sync pass of a      *)
(* match no such dependent's rotation changes, and the placement of one    *)
(* entity keeps the rotation for every rotation of the body, every offset  *)
(* and with or without an SVG.                                             *)
C14_DisabledFlagKeepsRotation ==
    [][SyncObjectsColliders =>
         /\ \A d \in RotationFree : dependents'[d].rotation = dependents[d].rotation
         /\ \A collider_position \in Transforms, offset \in Transforms,
               entity_transform \in Transforms, svg \in {NoneOpt, Some(1)} :
                sync_entity(collider_position, offset, svg, FALSE,
                            entity_transform).rotation = entity_transform.rotation]_vars

\* a sync pass has placed the entities of fighter 1 under a body turned a
\* quarter turn: the core sprite turned with it, the health bar did not and
\* sits at its distance from the body, the limb kept its own rotation
C14_Witness ==
    /\ "sync_objects_colliders" \in ran
    /\ 1 \in DOMAIN transforms /\ transforms[1].rotation = 1
    /\ dependents[<<1, "core">>].rotation = 1
    /\ dependents[<<1, "healthbar">>].rotation = 0
    /\ dependents[<<1, "healthbar">>].translation = transforms[1].translation + Distances.healthbar
    /\ \E g \in DOMAIN transforms :
           transforms[g].rotation = 0 /\ dependents[<<g, "limb">>].rotation = 1

\* the systems of stage Update that begin or continue in this step
Starts(system) == system \in ran' \ ran
CollisionProcessing == events_read' # events_read \/ Starts("collision_process")

(* C15: within one frame the phases run in the order input recording and   *)
(* attack resolution (stage First), deferred-batch resolution, collider    *)
(* synchronization, collision-event processing: the batches are executed   *)
(* in stage Update, the sync pass starts only after the batches were       *)
(* executed, and no collision event is processed before the sync pass.     *)
C15_PhasesInOrder ==
    [][/\ Starts("execute_unused_actions") => stage = "Update"
       /\ Starts("sync_objects_colliders") => "execute_unused_actions" \in ran
       /\ CollisionProcessing => "sync_objects_colliders" \in ran]_vars

\* the events between a collider of exactly one fighter and a collider of
\* the given type that belongs to the map
SingleFighterEvents(ty) ==
    {ev \in CollisionEvents :
        /\ ~ev.removed
        /\ {ev.one[1], ev.two[1]} = {"player", "map"}
        /\ (IF ev.one[1] = "map" THEN ev.one ELSE ev.two)[3] = ty}

(* C16: when exactly one fighter is involved in a collision event with a   *)
(* death collider, processing the event sets the fighter's health to 0,    *)
(* for a Started event and for a Stopped event alike.                      *)
C16_DeathColliderKnocksOut ==
    [][\A ev \in SingleFighterEvents("Death") :
          CollisionEvent(ev) => player_health'[StruckIn(ev)[2]] = 0]_vars

(* C17: when exactly one fighter is involved with a jump-reset collider, a *)
(* Started event sets its available jumps to its maximum and sets its      *)
(* collision dominance; a Stopped event sets its available jumps to its    *)
(* maximum minus one and clears its collision dominance.                   *)
C17_SingleFighterJumpReset ==
    [][\A ev \in SingleFighterEvents("JumpReset") :
          CollisionEvent(ev) =>
            LET f == StruckIn(ev)[2]
                max == player_descriptor[f].maximum_jumps
            IN  /\ ~panicked'
                /\ IF ev.type = "Started"
                   THEN /\ player_descriptor'[f].available_jumps = max
                        /\ player_descriptor'[f].char_collision_dominance
                   ELSE /\ player_descriptor'[f].available_jumps = max - 1
                        /\ player_descriptor'[f].available_jumps >= 0
                        /\ ~player_descriptor'[f].char_collision_dominance]_vars

\* the fighters holding collision dominance
Dominant == {f \in players : player_descriptor[f].char_collision_dominance}

\* every system of stage Update has run: the tick ends in this state
EndOfTick == stage = "Update" /\ ran = CollisionSystems /\ events_read = 0

(* C18: at the end of every tick, every fighter that holds collision       *)
(* dominance has available jumps equal to its maximum, whatever jump-cost  *)
(* movement actions and two-fighter Stopped events were processed in the   *)
(* tick.                                                                   *)
C18_DominanceKeepsJumps ==
    EndOfTick =>
        \A f \in Dominant :
            player_descriptor[f].available_jumps = player_descriptor[f].maximum_jumps

\* the end of the tick after the one in which fighter 1 gained collision
\* dominance: it holds the jump key, whose action costs a jump, and its
\* counter is full, while a Stopped event has lowered the jumps of a
\* fighter without dominance
C18_Witness ==
    /\ EndOfTick /\ now = MaxTime
    /\ 1 \in Dominant
    /\ "UP" \in player_descriptor[1].direction_facing
    /\ pressed_up.require_available_jumps /\ pressed_up.jumps_removed = 1
    /\ pressed_up.required_jumps <= 1
    /\ player_descriptor[1].maximum_jumps = 1
    /\ player_descriptor[1].available_jumps = 1
    /\ \E g \in players \ Dominant : player_descriptor[g].available_jumps = 0

\* the entities of fighter f's sync group that exist
SyncGroup(f, deps) == {d \in DOMAIN deps : d[1] = f}

(* C19: every fighter whose health has reached 0 is despawned by the       *)
(* despawn check together with every entity of its sync group: the check   *)
(* queues the despawn of each fighter without health and of each entity    *)
(* its body lists; at the tick's end the fighter and the entities of its   *)
(* group are gone together; and no synced entity exists whose fighter      *)
(* does not.                                                               *)
C19_DespawnedWithSyncGroup ==
    [][/\ Starts("health_despawn_check") =>
            \A f \in players : player_health[f] <= 0 =>
                /\ <<"player", f>> \in commands'
                /\ \A d \in SyncGroup(f, dependents) : <<"dependent", d>> \in commands'
       /\ now' # now =>
            \A f \in players : <<"player", f>> \in commands =>
                f \notin players' /\ SyncGroup(f, dependents') = {}
       /\ \A d \in DOMAIN dependents' : d[1] \in players']_vars

\* fighter 1 lost its health, was despawned at the tick's end with the five
\* entities of its sync group, and the other fighters keep theirs
C19_Witness ==
    /\ 1 \notin players
    /\ SyncGroup(1, dependents) = {}
    /\ \A g \in players : Cardinality(SyncGroup(g, dependents)) = 5
    /\ players # {}

\* the ids of the pending batches, and the ids under which maps are stored
BatchIds == {Batches[i].instance_id : i \in 1..Len(Batches)}
StoredIds == DOMAIN attack_directory.attack_instances

\* the stored InstanceMaps and the pending batches correspond one-to-one
\* by id, and no two pending batches share an id
OneToOne ==
    /\ StoredIds = BatchIds
    /\ \A i, j \in 1..Len(Batches) :
           Batches[i].instance_id = Batches[j].instance_id => i = j

(* C20: each InstanceMap is used to apply movement actions in at most one  *)
(* deferred phase and removed in that phase with its batch, and the stored *)
(* InstanceMaps always correspond one-to-one, by pairwise distinct id, to  *)
(* the pending batches: movement templates reach projectiles only in the   *)
(* deferred phase; the batches that phase executes leave the queue and     *)
(* their maps the directory in the same step; a map enters the directory   *)
(* only under an id never used before.                                     *)
C20_InstanceMapUsedOnce ==
    [][/\ OneToOne /\ OneToOne'
       /\ (\E e \in DOMAIN projectiles \cap DOMAIN projectiles' :
               projectiles'[e].applied # projectiles[e].applied)
            => Starts("execute_unused_actions")
       /\ Starts("execute_unused_actions") =>
            \A id \in StoredIds :
                (\E i \in 1..Len(Batches) :
                     Batches[i].instance_id = id /\ Batches[i].player_id \in players)
                  => id \notin StoredIds' /\ id \notin BatchIds'
       /\ \A id \in StoredIds' \ StoredIds :
            /\ id = attack_directory.previous_used_id
            /\ attack_directory'.previous_used_id = id + 1
       /\ attack_directory'.previous_used_id >= attack_directory.previous_used_id]_vars

\* a deferred phase has used the map of the first batch and removed both,
\* a second attack has registered a batch and a map under a fresh id
C20_Witness ==
    /\ attack_directory.previous_used_id = 2
    /\ StoredIds = {1} /\ BatchIds = {1}
    /\ \E e \in DOMAIN projectiles : projectiles[e].applied = 1

(* ------------------- claims: the effect of a template ------------------ *)
\* the fields of a body after a template overwrote with its set fields
\* first and accumulated its add fields second
SetThenAdd(m, fields) == add_values(m, set_values(m, fields))

(* C21: the deferred phase applies a movement template to a projectile by  *)
(* overwriting with its set fields first and accumulating its add fields   *)
(* second: every projectile a batch's MoveAction reaches holds, after the  *)
(* phase, set + add in each field the template both sets and adds.         *)
C21_SetFieldsThenAddFields ==
    [][ExecuteUnusedActions =>
         \A n \in 1..Len(Batches) : \A item \in PairedItems(Batches[n]) :
             item[2] \in DOMAIN projectiles =>
                 projectiles'[item[2]].body =
                     SetThenAdd(item[1], projectiles[item[2]].body)]_vars

(* ------------ specification of the deferred phase on a slot ------------ *)
(* execute_unused_actions taken as a handler over the inputs its queries   *)
(* admit: stage Update begins with the batch of the 1-1 attack fighter 1   *)
(* made facing right, whose InstanceMap slot lists two projectiles, and    *)
(* any of the two entities may be absent from projectile_query; the match  *)
(* goes on as in the attack pipeline.                                      *)
PendingPairAttack ==
    apply_attack(1, <<"One", "One">>, {"NONE", "RIGHT"},
        [dir |-> [attack_instances |-> EmptyMap, previous_used_id |-> 0,
                  unexecuted_actions |-> <<>>,
                  cooldown |-> [f \in Fighters |-> EmptyMap]],
         proj |-> EmptyMap, next |-> 1, vis |-> <<>>], 1)

InitSlot ==
    /\ now = 1
    /\ stage = "Update" /\ ran = {} /\ processed = {} /\ touched = {}
    /\ players = Fighters
    /\ attack_buffer = [f \in players |-> EmptyBuffer]
    /\ player_descriptor =
           [f \in players |->
               IF f = 1 THEN [CoreDescriptor(1) EXCEPT !.direction_facing = {"NONE", "RIGHT"}]
               ELSE CoreDescriptor(1)]
    /\ player_health = [f \in players |-> maximum_health]
    /\ attack_directory = PendingPairAttack.dir
    /\ \E absent \in SUBSET DOMAIN PendingPairAttack.proj :
           /\ projectiles = MapDrop(PendingPairAttack.proj, absent)
           /\ visuals = despawn_synced(PendingPairAttack.vis, absent)
    /\ next_entity = PendingPairAttack.next
    /\ commands = {}
    /\ pressed_up = MovementAction(FALSE, 1, 1)
    /\ overflow_checks \in BOOLEAN
    /\ events_read = 0
    /\ last_apply = NoCall
    /\ panicked = FALSE
    /\ transforms = [f \in players |-> Transform(0, 0)]
    /\ dependents = SpawnedDependents(players)

SpecSlot == InitSlot /\ [][NextAttack]_vars

Resolves(f) == last_apply'.player = f /\ f \in players
ResolvedType == attack_type_of(last_apply'.key)

\* the step spawns an entity, registers a batch or starts a cooldown
Executes ==
    \/ next_entity' # next_entity
    \/ attack_directory'.previous_used_id # attack_directory.previous_used_id
    \/ \E f \in Fighters :
           \E a \in DOMAIN attack_directory'.cooldown[f] :
               \/ a \notin DOMAIN attack_directory.cooldown[f]
               \/ attack_directory'.cooldown[f][a] # attack_directory.cooldown[f][a]

(* C23: when a combo resolves for an attack type that already has a        *)
(* cooldown entry of that fighter, nothing is executed: no projectile is   *)
(* spawned, no batch registered, the directory with the entry's start and  *)
(* duration is unchanged; and the attack is not run later either: whatever *)
(* spawns, registers or starts a cooldown is a step in which a combo is    *)
(* resolved for a type without entry.                                      *)
C23_SuppressedAttackIsDropped ==
    [][/\ \A f \in ActiveFighters :
            (Resolves(f) /\ ResolvedType \in DOMAIN attack_directory.cooldown[f]) =>
                /\ projectiles' = projectiles
                /\ next_entity' = next_entity
                /\ attack_directory' = attack_directory
       /\ Executes =>
            \E f \in ActiveFighters :
                Resolves(f) /\ ResolvedType \notin DOMAIN attack_directory.cooldown[f]]_vars

\* fighter 1's combo 1-1 has just been handed to apply_attack while the
\* entry started by an earlier 1-1 is in the table: one projectile exists
C23_Witness ==
    /\ last_apply.player = 1 /\ last_apply.key = <<"One", "One">>
    /\ "OneOne" \in DOMAIN attack_directory.cooldown[1]
    /\ attack_directory.cooldown[1]["OneOne"].cooldown_start < now
    /\ attack_directory.previous_used_id = 1
    /\ next_entity = 2

(* C24: resolving a combo key whose AttackSlot is unbound spawns nothing,  *)
(* registers no batch, and neither inserts nor changes any cooldown entry: *)
(* the directory, and with it the gate of every attack type of the         *)
(* fighter, is as before.                                                  *)
C24_UnboundSlotIsInert ==
    [][\A f \in ActiveFighters :
          (Resolves(f) /\ AvailableAttacks[ResolvedType] = NoneOpt) =>
              /\ projectiles' = projectiles
              /\ next_entity' = next_entity
              /\ attack_directory' = attack_directory
              /\ \A a \in AttackTypes :
                     (a \in DOMAIN attack_directory'.cooldown[f])
                         = (a \in DOMAIN attack_directory.cooldown[f])]_vars

\* fighter 1's combo 2-2, bound to no attack, has just been handed to
\* apply_attack while the cooldown of its earlier attack 1-1 runs: the 2-2
\* type has no entry
C24_Witness ==
    /\ last_apply.player = 1 /\ last_apply.key = <<"Two", "Two">>
    /\ DOMAIN attack_directory.cooldown[1] = {"OneOne"}
    /\ attack_buffer[1] = EmptyBuffer

(* ------------------------ claims: buffer length ------------------------ *)
\* what a key iteration can see: an edge, or neither
InputKeyboardType == KeyEdges \cup {"None"}

(* C25: a fighter's attack buffer never holds more than 2 entries: not     *)
(* between two key iterations, and not inside one, after add_to_buffer has *)
(* recorded the input (a press, a release, a held or idle key, a reset)    *)
(* and before the resolve that follows it.                                 *)
C25_BufferAtMostTwo ==
    \A f \in players :
        /\ Len(attack_buffer[f].buffer) <= 2
        /\ \A purpose \in InputPurpose, input_type \in InputKeyboardType :
               Len(add_to_buffer(attack_buffer[f], input_type, purpose, now).buffer) <= 2

\* after a first attack was resolved, fighter 1's buffer holds one press
\* and a further press fills it to two entries
C25_Witness ==
    /\ attack_directory.previous_used_id >= 1
    /\ Len(attack_buffer[1].buffer) = 1
    /\ Len(add_to_buffer(attack_buffer[1], "JustPressed", "Atk2", now).buffer) = 2

(* ---------------------- claims: declaration order ---------------------- *)
\* an attack that declares the spawn action before the MoveAction paired
\* with it, and one that declares it after
SpawnFirst == [actions |-> <<"shoot", "push">>, cooldown |-> 0]
MoveFirst == [actions |-> <<"push", "shoot">>, cooldown |-> 0]

\* the projectiles after fighter f executed the attack in the present world
\* and the deferred phase that follows resolved its batch
AfterPhase(attack, f) ==
    LET w == Attack_execute_attack(attack, f, player_descriptor[f].direction_facing,
                                   World, now)
    IN  execute_unused_actions(w.dir, w.proj, players, player_descriptor).proj

(* C26: no MoveAction is applied during attack execution itself: the       *)
(* execution leaves every projectile that existed untouched and spawns its *)
(* own with nothing received; and the projectiles that have received the   *)
(* movement effect after the deferred phase, with what they received, are  *)
(* the same whether the MoveAction is declared before or after the spawn   *)
(* action it is paired with.                                               *)
C26_DeclarationOrderIrrelevant ==
    \A f \in ActiveFighters \cap players : \A attack \in {SpawnFirst, MoveFirst} :
        LET w == Attack_execute_attack(attack, f, player_descriptor[f].direction_facing,
                                       World, now)
        IN  /\ \A e \in DOMAIN projectiles : w.proj[e] = projectiles[e]
            /\ \A e \in DOMAIN w.proj \ DOMAIN projectiles :
                   w.proj[e].applied = 0 /\ w.proj[e].body = ZeroBody
            /\ AfterPhase(SpawnFirst, f) = AfterPhase(MoveFirst, f)

\* fighter 1 made the attack that declares its MoveAction first (combo 1-2)
\* and no other: its projectile has received the movement effect in the
\* deferred phase
C26_Witness ==
    /\ DOMAIN attack_directory.cooldown[1] = {"OneTwo"}
    /\ attack_directory.previous_used_id = 1
    /\ Batches = <<>>
    /\ \E e \in DOMAIN projectiles :
           /\ projectiles[e].parent = 1 /\ projectiles[e].applied = 1
           /\ projectiles[e].body["linvel"] = 2

(* ---------------------- claims: consumed presses ----------------------- *)
\* the presses fighter f's buffer holds when a key iteration begins
HeldPresses(f) == attack_buffer[f].buffer

(* C27: a resolve that finds a complete combo empties the buffer and       *)
(* zeroes its timestamp whatever the cooldown gate answers: executed,      *)
(* suppressed by cooldown, or bound to no slot. Its presses are consumed:  *)
(* the combo is made of the one press held since the last resolve and the  *)
(* press of this iteration, and after it a single further press, of either *)
(* attack key, completes no combo.                                         *)
C27_ResolvedComboIsConsumed ==
    [][\A f \in ActiveFighters :
          Resolves(f) =>
              /\ last_apply'.outcome \in {"executed", "suppressed", "unbound"}
              /\ attack_buffer'[f] = EmptyBuffer
              /\ Len(HeldPresses(f)) = 1
              /\ last_apply'.key[1] = HeldPresses(f)[1]
              /\ \A k \in {"Atk1", "Atk2"} :
                     combo_of(clear_if_stale(
                         add_to_buffer(attack_buffer'[f], "JustPressed", k, now'),
                         now')) = NoneOpt]_vars

\* fighter 1's combo 1-2 has just been refused by the cooldown its earlier
\* 1-2 started, the 1-1 attack never having been made: the buffer is empty
C27_Witness ==
    /\ last_apply.player = 1 /\ last_apply.key = <<"One", "Two">>
    /\ last_apply.outcome = "suppressed"
    /\ DOMAIN attack_directory.cooldown[1] = {"OneTwo"}
    /\ attack_buffer[1] = EmptyBuffer

(* ------------------------ claims: facing drift ------------------------- *)
\* the canonical facings under which batch b's attack keyed its projectiles
SpawnFacings(b) == {key[1] : key \in DOMAIN InstanceMapOf(b)}

(* C28: when the deferred phase resolves the batches, every batch whose    *)
(* owner is present has its projectiles keyed under the canonical facing   *)
(* the owner has at that moment, so the deferred lookup finds them: the    *)
(* key events of the tick, in whatever order they were processed, have not *)
(* moved the facing away from the one the attack spawned under.            *)
C28_DeferredFacingIsSpawnFacing ==
    [][Starts("execute_unused_actions") =>
          \A i \in 1..Len(Batches) :
              Batches[i].player_id \in players =>
                  SpawnFacings(Batches[i]) \subseteq {FacingOf(Batches[i].player_id)}]_vars

(* ------------- specification of the projectile visuals ----------------- *)
(* The fighters press the first attack key and the keys Left, Right and    *)
(* Down: facing right the 1-1 attack spawns the two projectiles of "pair", *)
(* the second drawn with a sync_offset that has a z component; facing down *)
(* and left it spawns "stray", whose physics object is not defined.  In    *)
(* stage Update the sync pass runs with the systems of the attack          *)
(* pipeline.                                                               *)
VisualSystems ==
    {"check_cooldowns", "execute_unused_actions", "projectile_lifetimes",
     "sync_objects_colliders"}
VisualKeys == {"Atk1", "Left", "Right", "Down"}

NextVisual ==
    \/ \E f \in ActiveFighters, purpose \in VisualKeys, input_type \in KeyEdges :
           KeyEvent(f, purpose, input_type)
    \/ \E f \in Fighters : KeyIdle(f)
    \/ FinishFirst
    \/ CheckCooldowns
    \/ ExecuteUnusedActions
    \/ ProjectileLifetimes
    \/ SyncObjectsColliders
    \/ \E dt \in 1..MaxDelta : EndFrame(VisualSystems, dt)

SpecVisual == InitAttack /\ [][NextVisual]_vars

(* ------------------------ claims: sync idempotence --------------------- *)
(* C29: the collider sync pass is idempotent: with the bodies and the      *)
(* offsets as they are, a second pass run right after a first leaves every *)
(* synced entity, the fighters' and the projectiles', where the first put  *)
(* it: the same translation, z included, and the same rotation.            *)
C29_SyncPassIdempotent ==
    LET once == sync_objects_colliders(transforms, dependents)
        drawn == sync_projectile_visuals(projectiles, visuals)
    IN  /\ sync_objects_colliders(transforms, once) = once
        /\ sync_projectile_visuals(projectiles, drawn) = drawn

(* ------------------------ claims: orphan visuals ----------------------- *)
(* C30: every visual entity a projectile spawn created is bound to the     *)
(* sync group of a physics body spawned with it, and exists only as long   *)
(* as that body: a spawn whose physics object has no definition leaves no  *)
(* entity behind.                                                          *)
C30_VisualsBoundToBody ==
    \A i \in 1..Len(visuals) :
        /\ visuals[i].body # NoneOpt
        /\ visuals[i].body[1] \in DOMAIN projectiles

====
